---------------------------- MODULE Spec2Model ----------------------------
(***************************************************************************)
(* Wealth Growth Pro: the portfolio ledger, the allocation planner and the *)
(* versioned snapshot store of the Streamlit application.                  *)
(*                                                                         *)
(* One action of the model is one run of the Streamlit script with one     *)
(* button pressed: the script reloads the state from the "latest" file,    *)
(* fetches prices, executes the handler of the pressed button and, where   *)
(* the handler says so, writes a snapshot and the "latest" file.           *)
(*                                                                         *)
(* Numbers: the program computes with IEEE doubles.  The model computes    *)
(* with exact rationals [n, d] in lowest terms; shares and prices are      *)
(* whole units.  Statements "within floating tolerance" are checked as     *)
(* exact equalities of rationals.                                          *)
(***************************************************************************)
EXTENDS Integers, Sequences, FiniteSets, TLC

(***************************************************************************)
(* Bounds of the model.                                                    *)
(***************************************************************************)
MaxHist == 2
PlannerHist == 2
StoreHist == 2
PremHist == 5
OptionsHist == 2
UsersHist == 1
CacheHist == 1
InputsHist == 2
VersionClock == 31
FreeSeconds == 3
ExpiryHist == 2
MarginHist == 3
AssignHist == 2
CapitalHist == 2

(***************************************************************************)
(* Exact rationals.                                                        *)
(***************************************************************************)
Abs(x) == IF x < 0 THEN -x ELSE x

RECURSIVE GCD(_, _)
GCD(a, b) == IF b = 0 THEN a ELSE GCD(b, a % b)

Rat(n, d) ==
    LET g == GCD(Abs(n), Abs(d))
        s == IF d < 0 THEN -1 ELSE 1
    IN  [n |-> (s * n) \div g, d |-> (s * d) \div g]

Zero == [n |-> 0, d |-> 1]
FromInt(i) == [n |-> i, d |-> 1]
RAdd(x, y) == Rat(x.n * y.d + y.n * x.d, x.d * y.d)
RSub(x, y) == Rat(x.n * y.d - y.n * x.d, x.d * y.d)
RMul(x, y) == Rat(x.n * y.n, x.d * y.d)
RDiv(x, y) == Rat(x.n * y.d, x.d * y.n)
RLess(x, y) == x.n * y.d < y.n * x.d
RLeq(x, y) == x.n * y.d <= y.n * x.d
RPos(x) == x.n > 0

RECURSIVE RSum(_)
RSum(s) == IF s = <<>> THEN Zero ELSE RAdd(Head(s), RSum(Tail(s)))

RECURSIVE ISum(_)
ISum(s) == IF s = <<>> THEN 0 ELSE Head(s) + ISum(Tail(s))

(***************************************************************************)
(* Input domains of the widgets (small sets of the values a user can       *)
(* enter) and the answers of the external price provider.                  *)
(***************************************************************************)
Users == {"alice", "bob"}
SessionUsers == {"alice"}
Instants == 0..1
TickerInputs == {"NVDA", "SOXL"}
ShareInputs == {1, 2}
PriceInputs == {1, 3}
ContractInputs == {0, 2}
PremiumInputs == {0, 1}
RecordedPremiums == {0, 1, 2, 3}
CapitalInputs == {0, 10}
InitialInputs == {0, 10, 20}
MarginInputs == {0, 5}
Markets == {"up", "partial", "down"}

\* What a user may leave in the form of target percentages: the values shown
\* (the current targets), or a form filled in completely.
FormA(t) ==
    CASE t = "SOXL" -> Rat(50, 100)
      [] t = "SLV" -> Rat(30, 100)
      [] t = "TQQQ" -> Rat(30, 100)
      [] OTHER -> Zero
FormTie(t) == IF t \in {"SLV", "TQQQ"} THEN Rat(40, 100) ELSE Zero
FormZero(t) == Zero

TargetForms(etfs) ==
    { [i \in 1..Len(etfs) |-> etfs[i].target_pct],
      [i \in 1..Len(etfs) |-> FormA(etfs[i].ticker)],
      [i \in 1..Len(etfs) |-> FormTie(etfs[i].ticker)],
      [i \in 1..Len(etfs) |-> FormZero(etfs[i].ticker)] }

NoUser == "-"

(***************************************************************************)
(* The state of the program.                                               *)
(*   latest[u]    data/u/u_latest.json: <<content>>, or <<>> when absent   *)
(*   versions[u]  the files of data/u/u_history/: timestamp -> content     *)
(*   clock        wall clock, in seconds (the resolution of a timestamp)   *)
(*   username, session_snapshotted   st.session_state of the session       *)
(*   cache        st.cache_data of fetch_prices: ticker list -> entry      *)
(*   market       the state of the external price provider                 *)
(*   last         what the last script run did (operation, inputs, result) *)
(*   lots         bookkeeping for the purchases of the current user: for a *)
(*                ticker whose position was built from zero shares by      *)
(*                purchases alone, the shares bought and the money paid    *)
(***************************************************************************)
VARIABLES latest, versions, clock, username, session_snapshotted, cache,
          market, last, lots

vars == <<latest, versions, clock, username, session_snapshotted, cache,
          market, last, lots>>

files == <<latest, versions>>

(***************************************************************************)
(* TARGET_ALLOCATIONS, in declaration order.                               *)
(***************************************************************************)
TARGET_ALLOCATIONS ==
    << [ticker |-> "SOXL", pct |-> Rat(30, 100)],
       [ticker |-> "SLV",  pct |-> Rat(25, 100)],
       [ticker |-> "TQQQ", pct |-> Rat(16, 100)],
       [ticker |-> "URA",  pct |-> Rat(10, 100)],
       [ticker |-> "IAU",  pct |-> Rat(6, 100)],
       [ticker |-> "COPX", pct |-> Rat(6, 100)],
       [ticker |-> "UPRO", pct |-> Rat(6, 100)],
       [ticker |-> "UAMY", pct |-> Rat(1, 100)] >>

default_pct == Rat(5, 1000)

(***************************************************************************)
(* etfs is a dict in insertion order: here a sequence of positions, each   *)
(* carrying its ticker.                                                    *)
(***************************************************************************)
Keys(etfs) == [i \in 1..Len(etfs) |-> etfs[i].ticker]
KeySet(etfs) == {etfs[i].ticker : i \in 1..Len(etfs)}
Idx(etfs, t) == CHOOSE i \in 1..Len(etfs) : etfs[i].ticker = t
Pos(etfs, t) == etfs[Idx(etfs, t)]
SetPos(etfs, t, p) == [etfs EXCEPT ![Idx(etfs, t)] = p]

new_position(t, pct) ==
    [ticker |-> t, shares |-> 0, cost_basis |-> Zero, target_pct |-> pct,
     contracts_sold |-> 0, weekly_contracts |-> 0]

default_state ==
    [etfs |-> [i \in 1..Len(TARGET_ALLOCATIONS) |->
                  new_position(TARGET_ALLOCATIONS[i].ticker,
                               TARGET_ALLOCATIONS[i].pct)],
     history |-> <<>>,
     initial_capital |-> 0,
     capital_additions |-> <<>>,
     option_trades |-> <<>>]

(***************************************************************************)
(* load_latest / save_version / load_version.                              *)
(***************************************************************************)
\* A file holds the JSON text of a state.  json.dump and json.load give back
\* the dict that was written (floats by their repr, keys in insertion order),
\* so the text of a whole state is represented by the state.  A file that was
\* cut short holds a prefix of the text: the leading keys of the dict.
StateKeys == {"etfs", "history", "initial_capital", "capital_additions", "option_trades"}

\* json.load(f) returns (a whole record) rather than raising
parses(content) == DOMAIN content = StateKeys

\* mutant: the file is never read
load_latest_ignores_file(lat, u) == default_state

load_latest(lat, u) ==
    IF lat[u] # <<>> /\ parses(lat[u][1]) THEN lat[u][1] ELSE default_state

\* datetime.now().strftime("%Y-%m-%d_%H%M%S"): the clock at the resolution
\* of one second, which is the unit of clock.
timestamp(now) == now

today(now) == now \div 86400

write_version_file(vers, u, data, now) ==
    [vers EXCEPT ![u] = (timestamp(now) :> data) @@ vers[u]]

\* mutant: one latest file for all users
write_latest_file_shared(lat, u, data) == [w \in DOMAIN lat |-> <<data>>]

write_latest_file(lat, u, data) == [lat EXCEPT ![u] = <<data>>]

\* save_version(data): the pair <<latest, versions>> after the two writes.
save_version(lat, vers, u, data, now) ==
    << write_latest_file(lat, u, data), write_version_file(vers, u, data, now) >>

\* mutants: a missing file read as a fresh state; the newest file read
\* whichever file was selected
load_version_default(vers, u, v) ==
    IF v \in DOMAIN vers[u] THEN <<vers[u][v]>> ELSE <<default_state>>

load_version_newest(vers, u, v) ==
    IF v \in DOMAIN vers[u]
    THEN <<vers[u][CHOOSE w \in DOMAIN vers[u] : \A x \in DOMAIN vers[u] : x <= w]>>
    ELSE <<>>

load_version(vers, u, v) == IF v \in DOMAIN vers[u] THEN <<vers[u][v]>> ELSE <<>>

\* What an interrupted write leaves in a file opened with "w": a prefix of
\* the text
cut_short(data) ==
    { [etfs |-> data.etfs], [etfs |-> data.etfs, history |-> data.history] }

\* save_version(data) interrupted: in the write of the snapshot file, between
\* the two writes, or in the write of the latest file.  The set of the pairs
\* <<latest, versions>> it can leave.
save_version_interrupted(lat, vers, u, data, now) ==
    { <<lat, write_version_file(vers, u, c, now)>> : c \in cut_short(data) }
    \cup { <<lat, write_version_file(vers, u, data, now)>> }
    \cup { <<write_latest_file(lat, u, c), write_version_file(vers, u, data, now)>> :
              c \in cut_short(data) }

\* mutant: ascending order
RECURSIVE sorted_ascending(_)
sorted_ascending(S) ==
    IF S = {} THEN <<>>
    ELSE LET x == CHOOSE y \in S : \A z \in S : y <= z
         IN  <<x>> \o sorted_ascending(S \ {x})

\* sorted(..., reverse=True) of a set of file names: a "%Y-%m-%d_%H%M%S"
\* name sorts as the second it names
RECURSIVE sorted_reverse(_)
sorted_reverse(S) ==
    IF S = {} THEN <<>>
    ELSE LET x == CHOOSE y \in S : \A z \in S : z <= y
         IN  <<x>> \o sorted_reverse(S \ {x})

\* the options of the select box: versions[:30]
display_options(vers, u) ==
    LET sorted_versions == sorted_reverse(DOMAIN vers[u])
    IN  SubSeq(sorted_versions, 1,
               IF Len(sorted_versions) < 30 THEN Len(sorted_versions) ELSE 30)

\* versions = sorted(glob(...), reverse=True); the select box offers versions[:30]
version_list(vers, u) ==
    {v \in DOMAIN vers[u] : Cardinality({w \in DOMAIN vers[u] : w > v}) < 30}

(***************************************************************************)
(* fetch_prices under st.cache_data(ttl=300), and the provider's answers.  *)
(***************************************************************************)
ttl == 300

\* one week in seconds: past the Friday of every trade sold before it
Week == 7 * 86400

ExpiryInstants == {0, 1, Week, Week + 1}

\* the seconds around the end of the freshness window of an entry made at 0
CacheInstants == {0, 1, ttl - 1, ttl, ttl + 1}

MarketPrice(t) == IF t = "SOXL" THEN 2 ELSE 1

Range(s) == {s[i] : i \in 1..Len(s)}

\* mutant: a failed lookup priced at 1
failed_prices_one(key) == [t \in Range(key) |-> 1]

\* the except branch: every ticker at 0
failed_prices(key) == [t \in Range(key) |-> 0]

\* What the provider answers in each state of the market: a quote for every
\* ticker, no quote for SOXL (the answer has no entry for it), or a failure.
provider(key, m) ==
    CASE m = "up" -> [t \in Range(key) |-> MarketPrice(t)]
      [] m = "partial" -> [t \in Range(key) \ {"SOXL"} |-> MarketPrice(t)]
      [] OTHER -> failed_prices(key)

\* mutant: no entry is ever fresh
cache_hit_never(c, key, now) == FALSE

CacheHit(c, key, now) == key \in DOMAIN c /\ now - c[key].at < ttl

fetch_prices(c, key, now, m) ==
    IF CacheHit(c, key, now) THEN c[key].val ELSE provider(key, m)

cache_put(c, key, now, m) ==
    IF CacheHit(c, key, now) THEN c
    ELSE (key :> [val |-> provider(key, m), at |-> now]) @@ c

price_get(prices, t, dflt) == IF t \in DOMAIN prices THEN prices[t] ELSE dflt

(***************************************************************************)
(* Portfolio calculations.                                                 *)
(***************************************************************************)
gross_value(etfs, prices) ==
    ISum([i \in 1..Len(etfs) |-> etfs[i].shares * price_get(prices, etfs[i].ticker, 0)])

margin_of(history) ==
    IF history = <<>> THEN 0
    ELSE IF "margin_debt" \in DOMAIN history[Len(history)]
         THEN history[Len(history)].margin_debt
         ELSE 0

valuation_entry(now, gv, m) ==
    [date |-> today(now), portfolio_value |-> gv, margin_debt |-> m, premium |-> 0]

\* h.get("premium", 0)
premium_of(h) == IF "premium" \in DOMAIN h THEN h.premium ELSE 0

\* mutant: a slice one entry longer
last_n_plus_one(s, n) == SubSeq(s, IF Len(s) > n + 1 THEN Len(s) - n ELSE 1, Len(s))

\* s[-n:]
last_n(s, n) == SubSeq(s, IF Len(s) > n THEN Len(s) - n + 1 ELSE 1, Len(s))

\* sum(h.get("premium", 0) for h in history[-4:]) if history else 0
monthly_premium_est(history) ==
    IF history # <<>>
    THEN ISum([i \in 1..Len(last_n(history, 4)) |-> premium_of(last_n(history, 4)[i])])
    ELSE 0

\* df["premium"].rolling(4, min_periods=1).sum(), at row k: the sum over the
\* window of the last 4 rows that ends at row k
monthly_prem(history, k) ==
    LET column == [i \in 1..Len(history) |-> history[i].premium]
        window == last_n(SubSeq(column, 1, k), 4)
    IN  ISum(window)

with_etfs_history(data, etfs, history) ==
    [data EXCEPT !.etfs = etfs, !.history = history]

(***************************************************************************)
(* Top of the script: the session's baseline snapshot (written on the      *)
(* first run of a session).  Gives <<latest, versions>>.                   *)
(***************************************************************************)
\* mutant: a baseline on every run
session_baseline_every_run(lat, vers, u, snapshotted, now) ==
    save_version(lat, vers, u, load_latest(lat, u), now)

session_baseline(lat, vers, u, snapshotted, now) ==
    IF ~snapshotted
    THEN save_version(lat, vers, u, load_latest(lat, u), now)
    ELSE <<lat, vers>>

(***************************************************************************)
(* Submit Buy.                                                             *)
(***************************************************************************)
\* mutant: the price is not looked at
buy_accepted_shares_only(sh_buy, pr_buy) == sh_buy > 0

buy_accepted(sh_buy, pr_buy) == sh_buy > 0 /\ pr_buy > 0

buy_new_s(old_shares, sh_buy) == old_shares + sh_buy


\* mutant: the plain average of the old basis and the new price
buy_new_b_unweighted(old_shares, old_basis, sh_buy, pr_buy) ==
    IF old_shares > 0
    THEN RDiv(RAdd(old_basis, FromInt(pr_buy)), FromInt(2))
    ELSE FromInt(pr_buy)

buy_new_b(old_shares, old_basis, sh_buy, pr_buy) ==
    IF buy_new_s(old_shares, sh_buy) > 0
    THEN RDiv(RAdd(RMul(FromInt(old_shares), old_basis), FromInt(sh_buy * pr_buy)),
              FromInt(buy_new_s(old_shares, sh_buy)))
    ELSE FromInt(pr_buy)

submit_buy(data, tk, sh, pr, gv, m, now) ==
    LET old == Pos(data.etfs, tk)
        new == [old EXCEPT !.shares = buy_new_s(old.shares, sh),
                           !.cost_basis = buy_new_b(old.shares, old.cost_basis, sh, pr)]
    IN  with_etfs_history(data, SetPos(data.etfs, tk, new),
                          Append(data.history, valuation_entry(now, gv, m)))

(***************************************************************************)
(* Submit Sell.                                                            *)
(***************************************************************************)

\* mutants: no check against the shares held; a check that is off by one
sell_accepted_unchecked(current_shares, sh_sell) == sh_sell > 0

sell_accepted_off_by_one(current_shares, sh_sell) ==
    sh_sell > 0 /\ ~(sh_sell > current_shares + 1)

sell_accepted(current_shares, sh_sell) == sh_sell > 0 /\ ~(sh_sell > current_shares)


\* mutant: every sale resets the basis
sell_new_basis_reset(new_shares, old_basis) == Zero

\* mutants: the basis is never reset; it is reset only below zero
sell_new_basis_kept(new_shares, old_basis) == old_basis

sell_new_basis_strict(new_shares, old_basis) ==
    IF new_shares < 0 THEN Zero ELSE old_basis

sell_new_basis(new_shares, old_basis) ==
    IF new_shares <= 0 THEN Zero ELSE old_basis

submit_sell(data, tk, sh, gv, m, now) ==
    LET old == Pos(data.etfs, tk)
        new_shares == old.shares - sh
        new == [old EXCEPT !.shares = new_shares,
                           !.cost_basis = sell_new_basis(new_shares, old.cost_basis)]
    IN  with_etfs_history(data, SetPos(data.etfs, tk, new),
                          Append(data.history, valuation_entry(now, gv, m)))

(***************************************************************************)
(* Record Premium.                                                         *)
(***************************************************************************)
premium_entry(now, premium, gv, m) ==
    [date |-> today(now), premium |-> premium, portfolio_value |-> gv, margin_debt |-> m]

record_premium(data, premium, gv, m, now) ==
    [data EXCEPT !.history = Append(@, premium_entry(now, premium, gv, m))]

(***************************************************************************)
(* Initial capital form, Add Capital, Update Margin.                       *)
(***************************************************************************)
\* mutant: the form is rendered whatever the capital
initial_form_always(initial_capital) == TRUE

\* the form is rendered only while initial_capital <= 0
initial_form_shown(initial_capital) == initial_capital <= 0

\* submit_btn and initial_input > 0
initial_accepted(initial_input) == initial_input > 0

initial_entry(now) ==
    [date |-> today(now), portfolio_value |-> 0, margin_debt |-> 0, premium |-> 0,
     note |-> <<"Initial capital set">>]

set_initial_capital(data, initial_input, now) ==
    [data EXCEPT !.initial_capital = initial_input,
                 !.history = Append(@, initial_entry(now))]

\* st.button("Add Capital") and add_amount > 0
capital_accepted(add_amount) == add_amount > 0

add_capital(data, add_amount, add_date, gv, m, now) ==
    [data EXCEPT !.capital_additions = Append(@, [date |-> add_date, amount |-> add_amount]),
                 !.history = Append(@, valuation_entry(now, gv, m))]

\* st.button("Update Margin") and margin_input != margin
margin_accepted(margin_input, m) == margin_input # m

margin_entry(now, gv, margin_input) ==
    [date |-> today(now), portfolio_value |-> gv, margin_debt |-> margin_input,
     premium |-> 0]

update_margin(data, margin_input, gv, now) ==
    [data EXCEPT !.history = Append(@, margin_entry(now, gv, margin_input))]

(***************************************************************************)
(* Add & Rebalance.                                                        *)
(***************************************************************************)
target_allocation_get(t, dflt) ==
    IF \E i \in 1..Len(TARGET_ALLOCATIONS) : TARGET_ALLOCATIONS[i].ticker = t
    THEN TARGET_ALLOCATIONS[CHOOSE i \in 1..Len(TARGET_ALLOCATIONS) :
                               TARGET_ALLOCATIONS[i].ticker = t].pct
    ELSE dflt

\* mutant: a ticker that exists is taken again
add_accepted_nonempty(etfs, new_ticker) == new_ticker # ""

add_accepted(etfs, new_ticker) == new_ticker # "" /\ new_ticker \notin KeySet(etfs)

add_ticker(data, new_ticker) ==
    [data EXCEPT !.etfs = Append(@, new_position(new_ticker,
                                    target_allocation_get(new_ticker, default_pct)))]

(***************************************************************************)
(* Update Contracts.                                                       *)
(***************************************************************************)
\* mutant: the two counts change places
update_contracts_swapped(data, tk, weekly, owned) ==
    [data EXCEPT !.etfs = SetPos(@, tk, [Pos(@, tk) EXCEPT !.weekly_contracts = owned,
                                                          !.contracts_sold = weekly])]

update_contracts(data, tk, weekly, owned) ==
    [data EXCEPT !.etfs = SetPos(@, tk, [Pos(@, tk) EXCEPT !.weekly_contracts = weekly,
                                                          !.contracts_sold = owned])]

(***************************************************************************)
(* Sell Calls.                                                             *)
(***************************************************************************)
\* round(x, 2), in cents
round2(x) == (2 * 100 * x.n + x.d) \div (2 * x.d)

sell_otm_pct(t) ==
    IF t = "SOXL" THEN Rat(12, 100) ELSE IF t = "TQQQ" THEN Rat(9, 100) ELSE Rat(7, 100)

sell_strike(t, current_price) ==
    round2(RMul(FromInt(current_price), RAdd(FromInt(1), sell_otm_pct(t))))

\* days are counted from a Monday
weekday(day) == day % 7

next_friday(day) ==
    day + (IF (4 - weekday(day)) % 7 = 0 THEN 7 ELSE (4 - weekday(day)) % 7)

calls_offered(prices, t) == price_get(prices, t, 0) > 0

\* mutant: the premium is not looked at
calls_accepted_contracts_only(contracts, premium_per) == ~(contracts <= 0)

calls_accepted(contracts, premium_per) == ~(contracts <= 0) /\ ~(premium_per <= 0)

\* mutant: without the 100 shares of a contract
total_prem_per_share(contracts, premium_per) == contracts * premium_per

total_prem(contracts, premium_per) == contracts * premium_per * 100

calls_entry(now, tk, contracts, premium_per) ==
    [date |-> today(now), premium |-> total_prem(contracts, premium_per),
     note |-> <<"Sold", contracts, tk, "calls">>]

\* mutant: a trade recorded as already assigned
calls_trade_assigned(now, tk, contracts, premium_per, price) ==
    [ticker |-> tk, type |-> "call", strike |-> sell_strike(tk, price),
     expiry |-> next_friday(today(now)), contracts |-> contracts,
     premium |-> premium_per, status |-> "assigned"]

calls_trade(now, tk, contracts, premium_per, price) ==
    [ticker |-> tk, type |-> "call", strike |-> sell_strike(tk, price),
     expiry |-> next_friday(today(now)), contracts |-> contracts,
     premium |-> premium_per, status |-> "open"]

\* mutant: the cumulative count is raised as well
sell_calls_counted(data, tk, contracts, premium_per, price, now) ==
    [data EXCEPT
        !.etfs = SetPos(@, tk, [Pos(@, tk) EXCEPT !.weekly_contracts = contracts,
                                                  !.contracts_sold = @ + contracts]),
        !.history = Append(@, calls_entry(now, tk, contracts, premium_per)),
        !.option_trades = Append(@, calls_trade(now, tk, contracts, premium_per, price))]

sell_calls(data, tk, contracts, premium_per, price, now) ==
    [data EXCEPT
        !.etfs = SetPos(@, tk, [Pos(@, tk) EXCEPT !.weekly_contracts = contracts]),
        !.history = Append(@, calls_entry(now, tk, contracts, premium_per)),
        !.option_trades = Append(@, calls_trade(now, tk, contracts, premium_per, price))]

(***************************************************************************)
(* Current Holdings table: the suggested strike of a row.  The tests       *)
(* '"SOXL" in t' are substring tests; on the tickers of the model they are *)
(* equalities.                                                             *)
(***************************************************************************)
table_otm_pct(t) ==
    IF t \in {"SOXL", "TQQQ"} THEN Rat(14, 100)
    ELSE IF t = "URA" THEN Rat(12, 100)
    ELSE IF t \in {"SLV", "COPX"} THEN Rat(85, 1000)
    ELSE IF t \in {"IAU", "UPRO"} THEN Rat(65, 1000)
    ELSE Rat(10, 100)

\* in cents; <<>> stands for "-" (no price)
suggested_strike(t, current_price) ==
    IF current_price > 0
    THEN <<round2(RMul(FromInt(current_price), RAdd(FromInt(1), table_otm_pct(t))))>>
    ELSE <<>>

(***************************************************************************)
(* Run Assignment Check.  The check boxes change the status in the copy of *)
(* the state this run holds.  "Save Assignment Updates" is a button inside *)
(* the block of the button "Run Assignment Check": it is pressed in a      *)
(* later run, in which the outer button is not, so its block never runs.   *)
(***************************************************************************)
open_trades(option_trades) ==
    {i \in 1..Len(option_trades) : option_trades[i].status = "open"}

\* mutant: every open trade is taken as assigned, whatever the check boxes
assignment_marks_all(option_trades, marks) ==
    [i \in 1..Len(option_trades) |->
        IF i \in open_trades(option_trades)
        THEN [option_trades[i] EXCEPT !.status = "assigned"]
        ELSE option_trades[i]]

\* option_trades of the run after the check boxes of the trades in marks
assignment_marks(option_trades, marks) ==
    [i \in 1..Len(option_trades) |->
        IF i \in marks /\ i \in open_trades(option_trades)
        THEN [option_trades[i] EXCEPT !.status = "assigned"]
        ELSE option_trades[i]]

\* the state passed to save_version by the run: none
assignment_check_saved(data, marks) == <<>>

(***************************************************************************)
(* Reset ALL data.  The button that confirms, and with it shutil.rmtree,   *)
(* sits inside the block of the Reset button: it is pressed in a later     *)
(* run, in which the Reset button is not, so the block never runs.         *)
(***************************************************************************)
\* the files after a run in which the Reset button is pressed
reset_files(lat, vers, u) == <<lat, vers>>

(***************************************************************************)
(* Save & Normalize (targets).                                             *)
(***************************************************************************)
targets_total(new_targets) == RSum(new_targets)


\* mutant: the division by a total of 1
normalized_by_one(pct, total) == pct

normalized(pct, total) == RDiv(pct, total)

\* mutant: the form's percentages are stored whatever their total
save_normalize_keeps_form(data, new_targets) ==
    LET total == targets_total(new_targets)
    IN  [data EXCEPT !.etfs = [i \in 1..Len(@) |->
            [@[i] EXCEPT !.target_pct =
                IF RPos(total) THEN normalized(new_targets[i], total)
                ELSE new_targets[i]]]]

\* new_targets: the percentages of the form, one per position, in order
save_normalize(data, new_targets) ==
    LET total == targets_total(new_targets)
    IN  IF RPos(total)
        THEN [data EXCEPT !.etfs = [i \in 1..Len(@) |->
                  [@[i] EXCEPT !.target_pct = normalized(new_targets[i], total)]]]
        ELSE data

(***************************************************************************)
(* Suggest Reinvestment.                                                   *)
(***************************************************************************)
deviation(p, total_val, prices) ==
    RSub(RMul(FromInt(total_val), p.target_pct),
         FromInt(p.shares * price_get(prices, p.ticker, 0)))

deviations(etfs, total_val, prices) ==
    [i \in 1..Len(etfs) |-> deviation(etfs[i], total_val, prices)]

\* mutant: the last of the greatest
RECURSIVE py_max_last(_, _)
py_max_last(devs, n) ==
    IF n = 1 THEN 1
    ELSE LET b == py_max_last(devs, n - 1)
         IN  IF RLeq(devs[b], devs[n]) THEN n ELSE b

\* max(deviations, key=deviations.get): the first key, in the order of the
\* dict, whose value no later key exceeds
RECURSIVE py_max(_, _)
py_max(devs, n) ==
    IF n = 1 THEN 1
    ELSE LET b == py_max(devs, n - 1)
         IN  IF RLess(devs[b], devs[n]) THEN n ELSE b

suggest_best(etfs, total_val, prices) ==
    etfs[py_max(deviations(etfs, total_val, prices), Len(etfs))].ticker

\* shares_buy = premium / prices.get(best, 1)
suggest(etfs, premium, total_val, prices) ==
    LET best == suggest_best(etfs, total_val, prices)
        price == price_get(prices, best, 1)
    IN  IF price = 0
        THEN [best |-> best, result |-> "ZeroDivisionError"]
        ELSE [best |-> best, result |-> "Buy", shares_buy |-> Rat(premium, price),
              at_price |-> price_get(prices, best, 0)]

(***************************************************************************)
(* Bookkeeping of purchases (not program state).                           *)
(***************************************************************************)
NoLot == [shares |-> 0, cost |-> 0]

fresh_lots(etfs) ==
    [t \in {etfs[i].ticker : i \in {j \in 1..Len(etfs) : etfs[j].shares = 0}} |-> NoLot]

Restrict(f, S) == [x \in S |-> f[x]]

lots_after_buy(l, tk, sh, pr) ==
    IF tk \in DOMAIN l
    THEN [l EXCEPT ![tk] = [shares |-> @.shares + sh, cost |-> @.cost + sh * pr]]
    ELSE l

lots_after_sell(l, tk, new_shares) ==
    IF new_shares = 0 THEN (tk :> NoLot) @@ l
    ELSE Restrict(l, DOMAIN l \ {tk})

(***************************************************************************)
(* Initial state: nothing on disk, no session.                             *)
(***************************************************************************)
Init ==
    /\ latest = [u \in Users |-> <<>>]
    /\ versions = [u \in Users |-> <<>>]
    /\ clock = 0
    /\ username = NoUser
    /\ session_snapshotted = FALSE
    /\ cache = <<>>
    /\ market = "up"
    /\ last = [op |-> "init", saved |-> <<>>]
    /\ lots = <<>>

InSession == username # NoUser

(***************************************************************************)
(* One run of the script in the session.                                   *)
(*   Base    the files after the top of the script                         *)
(*   Data    the state the run loaded                                      *)
(*   Prices  prices = fetch_prices(list(etfs.keys()))                      *)
(***************************************************************************)
Base == session_baseline(latest, versions, username, session_snapshotted, clock)
Data == load_latest(latest, username)
Prices == fetch_prices(cache, Keys(Data.etfs), clock, market)
Gross == gross_value(Data.etfs, Prices)
Margin == margin_of(Data.history)

\* The end of a run whose handler sits below the price fetch.  write is
\* <<data>> when the handler calls save_version(data) and reruns the script,
\* <<>> when it saves nothing; the rerun fetches the prices of the new state.
Finish(write, ev, l) ==
    LET g == IF write # <<>>
             THEN save_version(Base[1], Base[2], username, write[1], clock)
             ELSE Base
        c == cache_put(cache, Keys(Data.etfs), clock, market)
    IN  /\ latest' = g[1]
        /\ versions' = g[2]
        /\ cache' = cache_put(c, Keys(load_latest(g[1], username).etfs), clock, market)
        /\ last' = ev
        /\ lots' = l
        /\ session_snapshotted' = TRUE
        /\ UNCHANGED <<clock, username, market>>

\* one second passes, or the freshness window of the price cache
Tick(d) ==
    /\ clock' = clock + d
    /\ last' = [op |-> "tick", saved |-> <<>>]
    /\ UNCHANGED <<latest, versions, username, session_snapshotted, cache, market, lots>>

\* the market moves: the provider's next answer changes
MarketMove(m) ==
    /\ m # market
    /\ market' = m
    /\ last' = [op |-> "market", saved |-> <<>>]
    /\ UNCHANGED <<latest, versions, clock, username, session_snapshotted, cache, lots>>

\* a new browser session: st.session_state is empty again
NewSession ==
    /\ InSession
    /\ username' = NoUser
    /\ session_snapshotted' = FALSE
    /\ last' = [op |-> "new_session", saved |-> <<>>]
    /\ lots' = <<>>
    /\ UNCHANGED <<latest, versions, clock, cache, market>>

\* APPLY with a non-empty username, and the rerun it triggers: the script
\* loads the state, writes the baseline snapshot of the session and fetches
\* the prices.
Apply(u) ==
    LET data == load_latest(latest, u)
        f == session_baseline(latest, versions, u, session_snapshotted, clock)
    IN  /\ u # ""
        /\ username' = u
        /\ session_snapshotted' = TRUE
        /\ latest' = f[1]
        /\ versions' = f[2]
        /\ cache' = cache_put(cache, Keys(data.etfs), clock, market)
        /\ last' = [op |-> "apply",
                    saved |-> IF session_snapshotted THEN <<>> ELSE <<data>>]
        /\ lots' = fresh_lots(data.etfs)
        /\ UNCHANGED <<clock, market>>

\* mutant: a restore that goes through save_version
LoadAndReplaceSaved(v) ==
    /\ InSession
    /\ LET old_data == load_version(Base[2], username, v)
           ok == old_data # <<>> /\ parses(old_data[1])
           g == IF ok THEN save_version(Base[1], Base[2], username, old_data[1], clock)
                ELSE Base
       IN  /\ latest' = g[1]
           /\ versions' = g[2]
           /\ last' = [op |-> "restore", version |-> v, ok |-> ok, saved |-> <<>>]
    /\ cache' = cache_put(cache, Keys(load_latest(latest', username).etfs), clock, market)
    /\ lots' = fresh_lots(load_latest(latest', username).etfs)
    /\ session_snapshotted' = TRUE
    /\ UNCHANGED <<clock, username, market>>

\* Load & Replace Current State with selected_file = v, and the rerun it
\* triggers.  A missing file makes load_version return None; a file cut short
\* makes json.load raise, which ends the run.
LoadAndReplace(v) ==
    /\ InSession
    /\ LET old_data == load_version(Base[2], username, v)
           ok == old_data # <<>> /\ parses(old_data[1])
       IN  /\ latest' = IF ok
                        THEN write_latest_file(Base[1], username, old_data[1])
                        ELSE Base[1]
           /\ last' = [op |-> "restore", version |-> v, ok |-> ok, saved |-> <<>>]
    /\ versions' = Base[2]
    /\ cache' = cache_put(cache, Keys(load_latest(latest', username).etfs), clock, market)
    /\ lots' = fresh_lots(load_latest(latest', username).etfs)
    /\ session_snapshotted' = TRUE
    /\ UNCHANGED <<clock, username, market>>

\* the select box offers the files of the history directory
Restore(v) ==
    /\ InSession
    /\ v \in version_list(Base[2], username)
    /\ LoadAndReplace(v)

\* Submit Buy whose save_version is interrupted.  crash: the process dies and
\* the session with it; otherwise the write raises, the run ends with the
\* exception and the session goes on.  st.success is not reached.
SubmitBuyInterrupted(tk, sh, pr, crash) ==
    /\ InSession
    /\ tk \in KeySet(Data.etfs)
    /\ buy_accepted(sh, pr)
    /\ LET new == submit_buy(Data, tk, sh, pr, Gross, Margin, clock)
       IN  /\ \E g \in save_version_interrupted(Base[1], Base[2], username, new, clock) :
                 /\ latest' = g[1]
                 /\ versions' = g[2]
           /\ last' = [op |-> "buy_interrupted", user |-> username, before |-> Data,
                       new |-> new, reported |-> FALSE, saved |-> <<>>]
    /\ cache' = cache_put(cache, Keys(Data.etfs), clock, market)
    /\ username' = IF crash THEN NoUser ELSE username
    /\ session_snapshotted' = ~crash
    /\ lots' = IF crash THEN <<>> ELSE fresh_lots(load_latest(latest', username).etfs)
    /\ UNCHANGED <<clock, market>>

SubmitBuy(tk, sh, pr) ==
    /\ InSession
    /\ tk \in KeySet(Data.etfs)
    /\ LET ok == buy_accepted(sh, pr)
           new == submit_buy(Data, tk, sh, pr, Gross, Margin, clock)
       IN  Finish(IF ok THEN <<new>> ELSE <<>>,
                  [op |-> "buy", ticker |-> tk, shares |-> sh, price |-> pr,
                   held |-> Pos(Data.etfs, tk).shares,
                   old_basis |-> Pos(Data.etfs, tk).cost_basis, ok |-> ok,
                   saved |-> IF ok THEN <<new>> ELSE <<>>],
                  IF ok THEN lots_after_buy(lots, tk, sh, pr) ELSE lots)

SubmitSell(tk, sh) ==
    /\ InSession
    /\ tk \in KeySet(Data.etfs)
    /\ LET held == Pos(Data.etfs, tk).shares
           ok == sell_accepted(held, sh)
           new == submit_sell(Data, tk, sh, Gross, Margin, clock)
       IN  Finish(IF ok THEN <<new>> ELSE <<>>,
                  [op |-> "sell", ticker |-> tk, shares |-> sh, held |-> held, ok |-> ok,
                   saved |-> IF ok THEN <<new>> ELSE <<>>],
                  IF ok THEN lots_after_sell(lots, tk, held - sh) ELSE lots)

\* st.button("Record Premium") and premium > 0
RecordPremium(premium) ==
    /\ InSession
    /\ LET ok == premium > 0
           new == record_premium(Data, premium, Gross, Margin, clock)
       IN  Finish(IF ok THEN <<new>> ELSE <<>>,
                  [op |-> "premium", premium |-> premium, ok |-> ok,
                   saved |-> IF ok THEN <<new>> ELSE <<>>],
                  lots)

\* marks: the trades whose check box reads True in this run
AssignmentCheck(marks) ==
    /\ InSession
    /\ marks \subseteq open_trades(Data.option_trades)
    /\ Finish(assignment_check_saved(Data, marks),
              [op |-> "assignment_check", marks |-> marks,
               in_run |-> assignment_marks(Data.option_trades, marks),
               ok |-> FALSE, saved |-> assignment_check_saved(Data, marks)],
              lots)

\* "Save Assignment Updates" pressed on the page an assignment check left:
\* in the run it triggers "Run Assignment Check" reads False, its block is
\* skipped, and the script runs to its end with no handler
SaveAssignmentUpdates ==
    /\ InSession
    /\ last.op = "assignment_check"
    /\ Finish(<<>>, [op |-> "save_assignments", ok |-> FALSE, saved |-> <<>>], lots)

\* a run with the Reset button pressed; the script goes on below it
Reset ==
    /\ InSession
    /\ LET g == reset_files(Base[1], Base[2], username)
       IN  /\ latest' = g[1]
           /\ versions' = g[2]
    /\ cache' = cache_put(cache, Keys(load_latest(latest', username).etfs), clock, market)
    /\ last' = [op |-> "reset", ok |-> FALSE, saved |-> <<>>]
    /\ lots' = lots
    /\ session_snapshotted' = TRUE
    /\ UNCHANGED <<clock, username, market>>

\* Confirm & Start of the initial capital form
SetInitialCapital(initial_input) ==
    /\ InSession
    /\ initial_form_shown(Data.initial_capital)
    /\ LET ok == initial_accepted(initial_input)
           new == set_initial_capital(Data, initial_input, clock)
       IN  Finish(IF ok THEN <<new>> ELSE <<>>,
                  [op |-> "initial", amount |-> initial_input, ok |-> ok,
                   saved |-> IF ok THEN <<new>> ELSE <<>>],
                  lots)

\* the date input holds its default, today
AddCapital(add_amount) ==
    /\ InSession
    /\ LET ok == capital_accepted(add_amount)
           new == add_capital(Data, add_amount, today(clock), Gross, Margin, clock)
       IN  Finish(IF ok THEN <<new>> ELSE <<>>,
                  [op |-> "capital", amount |-> add_amount, ok |-> ok,
                   saved |-> IF ok THEN <<new>> ELSE <<>>],
                  lots)

UpdateMargin(margin_input) ==
    /\ InSession
    /\ LET ok == margin_accepted(margin_input, Margin)
           new == update_margin(Data, margin_input, Gross, clock)
       IN  Finish(IF ok THEN <<new>> ELSE <<>>,
                  [op |-> "margin", margin_input |-> margin_input, ok |-> ok,
                   saved |-> IF ok THEN <<new>> ELSE <<>>],
                  lots)

AddTicker(new_ticker) ==
    /\ InSession
    /\ LET ok == add_accepted(Data.etfs, new_ticker)
           new == add_ticker(Data, new_ticker)
       IN  Finish(IF ok THEN <<new>> ELSE <<>>,
                  [op |-> "add", ticker |-> new_ticker, ok |-> ok,
                   saved |-> IF ok THEN <<new>> ELSE <<>>],
                  IF ok THEN (new_ticker :> NoLot) @@ lots ELSE lots)

UpdateContracts(tk, weekly, owned) ==
    /\ InSession
    /\ tk \in KeySet(Data.etfs)
    /\ LET new == update_contracts(Data, tk, weekly, owned)
       IN  Finish(<<new>>,
                  [op |-> "contracts", ticker |-> tk, weekly |-> weekly, owned |-> owned,
                   ok |-> TRUE, saved |-> <<new>>],
                  lots)

SellCalls(tk, contracts, premium_per) ==
    /\ InSession
    /\ tk \in KeySet(Data.etfs)
    /\ calls_offered(Prices, tk)
    /\ LET ok == calls_accepted(contracts, premium_per)
           new == sell_calls(Data, tk, contracts, premium_per, Prices[tk], clock)
       IN  Finish(IF ok THEN <<new>> ELSE <<>>,
                  [op |-> "calls", ticker |-> tk, contracts |-> contracts,
                   premium_per |-> premium_per, ok |-> ok,
                   saved |-> IF ok THEN <<new>> ELSE <<>>],
                  lots)

\* new_targets: what the form holds when the button is pressed, one
\* percentage per position
SaveNormalize(new_targets) ==
    /\ InSession
    /\ Len(new_targets) = Len(Data.etfs)
    /\ LET new == save_normalize(Data, new_targets)
       IN  Finish(<<new>>,
                  [op |-> "normalize", new_targets |-> new_targets, ok |-> TRUE,
                   saved |-> <<new>>],
                  lots)

SuggestReinvestment(premium) ==
    /\ InSession
    /\ premium > 0
    /\ Finish(<<>>,
              [op |-> "suggest", premium |-> premium, total_val |-> Gross,
               prices |-> Prices, etfs |-> Data.etfs,
               out |-> suggest(Data.etfs, premium, Gross, Prices), saved |-> <<>>],
              lots)

(***************************************************************************)
(* Guards that bound the model.                                            *)
(***************************************************************************)
HistRoom(n) == InSession => Len(load_latest(latest, username).history) < n

TimeRoom(d, n) == ((clock + d) \div ttl) + ((clock + d) % ttl) <= n

TickerRoom(n) ==
    InSession => Len(load_latest(latest, username).etfs) < Len(TARGET_ALLOCATIONS) + n

(***************************************************************************)
(* Spec: the ledger and its snapshots, one session of one user, over the   *)
(* clock seconds of Instants.                                              *)
(***************************************************************************)
Next ==
    \/ clock + 1 \in Instants /\ Tick(1)
    \/ \E u \in SessionUsers : ~InSession /\ Apply(u)
    \/ \E sh \in ShareInputs, pr \in PriceInputs :
          HistRoom(MaxHist) /\ SubmitBuy("SOXL", sh, pr)
    \/ \E sh \in ShareInputs : HistRoom(MaxHist) /\ SubmitSell("SOXL", sh)
    \/ \E t \in TickerInputs : TickerRoom(1) /\ AddTicker(t)
    \/ UpdateContracts("SOXL", 1, 2)
    \/ \E c \in ContractInputs, p \in PremiumInputs :
          HistRoom(MaxHist) /\ SellCalls("SOXL", c, p)
    \/ \E v \in Instants : Restore(v)

Spec == Init /\ [][Next]_vars

(***************************************************************************)
(* SpecPlanner: targets and the reinvestment suggestion, under every       *)
(* answer of the price provider.                                           *)
(***************************************************************************)
NextPlanner ==
    \/ \E m \in Markets : MarketMove(m)
    \/ \E u \in SessionUsers : ~InSession /\ Apply(u)
    \/ \E tk \in {"SOXL", "SLV"} : HistRoom(PlannerHist) /\ SubmitBuy(tk, 1, 1)
    \/ InSession /\ \E f \in TargetForms(Data.etfs) : SaveNormalize(f)
    \/ SuggestReinvestment(100)

SpecPlanner == Init /\ [][NextPlanner]_vars

(***************************************************************************)
(* SpecStore: the snapshot store across sessions, with restores of any      *)
(* selected file and with interrupted writes.                              *)
(***************************************************************************)
NextStore ==
    \/ clock + 1 \in Instants /\ Tick(1)
    \/ \E u \in SessionUsers : ~InSession /\ Apply(u)
    \/ NewSession
    \/ \E pr \in PriceInputs : HistRoom(StoreHist) /\ SubmitBuy("SOXL", 1, pr)
    \/ \E v \in Instants : LoadAndReplace(v)
    \/ \E crash \in BOOLEAN :
          HistRoom(StoreHist) /\ SubmitBuyInterrupted("SOXL", 1, 1, crash)

SpecStore == Init /\ [][NextStore]_vars

(***************************************************************************)
(* SpecHistory: a history that grows past the window of the rolling        *)
(* premium, with entries of purchases between the premiums.                *)
(***************************************************************************)
NextHistory ==
    \/ \E u \in SessionUsers : ~InSession /\ Apply(u)
    \/ \E p \in RecordedPremiums : HistRoom(PremHist) /\ RecordPremium(p)
    \/ HistRoom(PremHist) /\ SubmitBuy("SOXL", 1, 1)

SpecHistory == Init /\ [][NextHistory]_vars

(***************************************************************************)
(* SpecOptions: option trades through sales of calls, assignment checks    *)
(* and restores.                                                           *)
(***************************************************************************)
NextOptions ==
    \/ clock + 1 \in Instants /\ Tick(1)
    \/ \E u \in SessionUsers : ~InSession /\ Apply(u)
    \/ \E c \in ContractInputs, p \in ShareInputs :
          HistRoom(OptionsHist) /\ SellCalls("SOXL", c, p)
    \/ InSession /\ \E marks \in SUBSET open_trades(Data.option_trades) :
          AssignmentCheck(marks)
    \/ \E v \in Instants : Restore(v)

SpecOptions == Init /\ [][NextOptions]_vars

(***************************************************************************)
(* SpecExpiry: option trades while the clock passes their expiry date.     *)
(***************************************************************************)
NextExpiry ==
    \/ \E d \in {1, Week} : clock + d \in ExpiryInstants /\ Tick(d)
    \/ \E u \in SessionUsers : ~InSession /\ Apply(u)
    \/ \E c \in ShareInputs : HistRoom(ExpiryHist) /\ SellCalls("SOXL", c, 1)
    \/ InSession /\ \E marks \in SUBSET open_trades(Data.option_trades) :
          AssignmentCheck(marks)
    \/ \E v \in ExpiryInstants : Restore(v)

SpecExpiry == Init /\ [][NextExpiry]_vars

(***************************************************************************)
(* SpecMargin: margin updates between the operations that append history   *)
(* entries.                                                                *)
(***************************************************************************)
NextMargin ==
    \/ \E u \in SessionUsers : ~InSession /\ Apply(u)
    \/ \E m \in MarginInputs : HistRoom(MarginHist) /\ UpdateMargin(m)
    \/ HistRoom(MarginHist) /\ SubmitBuy("SOXL", 1, 1)
    \/ HistRoom(MarginHist) /\ SubmitSell("SOXL", 1)
    \/ HistRoom(MarginHist) /\ SellCalls("SOXL", 2, 1)
    \/ \E a \in CapitalInputs : HistRoom(MarginHist) /\ AddCapital(a)
    \/ HistRoom(MarginHist) /\ RecordPremium(1)

SpecMargin == Init /\ [][NextMargin]_vars

(***************************************************************************)
(* SpecAssign: assignment checks followed by "Save Assignment Updates".    *)
(* A user who is offered "Save Assignment Updates" eventually presses it.  *)
(***************************************************************************)
NextAssign ==
    \/ clock + 1 \in Instants /\ Tick(1)
    \/ \E u \in SessionUsers : ~InSession /\ Apply(u)
    \/ \E c \in ShareInputs, p \in ShareInputs :
          HistRoom(AssignHist) /\ SellCalls("SOXL", c, p)
    \/ InSession /\ \E marks \in SUBSET open_trades(Data.option_trades) :
          AssignmentCheck(marks)
    \/ SaveAssignmentUpdates

SpecAssign == Init /\ [][NextAssign]_vars /\ WF_vars(SaveAssignmentUpdates)

(***************************************************************************)
(* SpecCapital: the initial capital across capital additions, purchases,   *)
(* restores, resets and sessions.                                          *)
(***************************************************************************)
NextCapital ==
    \/ clock + 1 \in Instants /\ Tick(1)
    \/ \E u \in SessionUsers : ~InSession /\ Apply(u)
    \/ NewSession
    \/ \E x \in InitialInputs : HistRoom(CapitalHist) /\ SetInitialCapital(x)
    \/ HistRoom(CapitalHist) /\ AddCapital(10)
    \/ HistRoom(CapitalHist) /\ SubmitBuy("SOXL", 1, 1)
    \/ \E v \in Instants : Restore(v)
    \/ Reset

SpecCapital == Init /\ [][NextCapital]_vars

(***************************************************************************)
(* SpecUsers: two users; a session may change its username with APPLY.     *)
(***************************************************************************)
NextUsers ==
    \/ clock + 1 \in Instants /\ Tick(1)
    \/ \E u \in Users : u # username /\ Apply(u)
    \/ NewSession
    \/ \E pr \in PriceInputs : HistRoom(UsersHist) /\ SubmitBuy("SOXL", 1, pr)
    \/ \E v \in Instants : Restore(v)
    \/ Reset

SpecUsers == Init /\ [][NextUsers]_vars

(***************************************************************************)
(* SpecCache: the price cache over its freshness window, while the market  *)
(* moves and the provider fails.                                           *)
(***************************************************************************)
NextCache ==
    \/ \E d \in {1, ttl - 2, ttl - 1, ttl} : clock + d \in CacheInstants /\ Tick(d)
    \/ \E m \in Markets : MarketMove(m)
    \/ \E u \in SessionUsers : ~InSession /\ Apply(u)
    \/ HistRoom(CacheHist) /\ SubmitBuy("SOXL", 1, 1)
    \/ TickerRoom(1) /\ AddTicker("NVDA")
    \/ SuggestReinvestment(100)

SpecCache == Init /\ [][NextCache]_vars

(***************************************************************************)
(* SpecInputs: the handlers under inputs they must refuse (zero and        *)
(* negative amounts, an empty or a known ticker) next to inputs they take. *)
(***************************************************************************)
NextInputs ==
    \/ \E u \in SessionUsers : ~InSession /\ Apply(u)
    \/ \E sh \in {-1, 0, 1}, pr \in {0, 2} :
          HistRoom(InputsHist) /\ SubmitBuy("SOXL", sh, pr)
    \/ \E t \in {"", "SOXL", "NVDA"} : TickerRoom(1) /\ AddTicker(t)
    \/ \E tk \in {"SOXL", "SLV"}, weekly \in {0, 1}, owned \in {0, 2} :
          UpdateContracts(tk, weekly, owned)
    \/ HistRoom(InputsHist) /\ SellCalls("SOXL", 2, 1)

SpecInputs == Init /\ [][NextInputs]_vars

(***************************************************************************)
(* SpecVersions: a store that grows past the 30 versions of the select     *)
(* box.  After the first FreeSeconds seconds a second passes only once a   *)
(* snapshot was written in it.                                             *)
(***************************************************************************)
NextVersions ==
    \/ /\ clock < VersionClock
       /\ clock < FreeSeconds \/ (InSession /\ timestamp(clock) \in DOMAIN versions[username])
       /\ Tick(1)
    \/ \E u \in SessionUsers : ~InSession /\ Apply(u)
    \/ UpdateContracts("SOXL", 1, 2)
    \/ \E v \in {0, 1} : Restore(v)

SpecVersions == Init /\ [][NextVersions]_vars

(***************************************************************************)
(* Properties.                                                             *)
(***************************************************************************)
Max(S) == CHOOSE x \in S : \A y \in S : y <= x

\* every state on disk: the latest file and the snapshots of every user
Stored ==
    UNION {Range(latest[u]) \cup {versions[u][v] : v \in DOMAIN versions[u]} : u \in Users}

One == FromInt(1)

\* C1: after a purchase the position holds the old shares plus the shares
\* bought, at cost_basis = (old_shares*old_cost_basis + shares*price) /
\* (old_shares + shares), the price itself for a first purchase; and a
\* position built from zero shares by purchases alone has cost_basis = total
\* money paid / total shares bought.
C1_WeightedAverageCost ==
    InSession =>
      /\ (last.op = "buy" /\ last.ok) =>
            LET p == Pos(Data.etfs, last.ticker)
            IN  /\ p.shares = last.held + last.shares
                /\ RMul(p.cost_basis, FromInt(last.held + last.shares))
                      = RAdd(RMul(FromInt(last.held), last.old_basis),
                             FromInt(last.shares * last.price))
                /\ last.held = 0 => p.cost_basis = FromInt(last.price)
      /\ \A t \in DOMAIN lots :
            lots[t].shares > 0 =>
               /\ Pos(Data.etfs, t).shares = lots[t].shares
               /\ Pos(Data.etfs, t).cost_basis.n * lots[t].shares
                     = lots[t].cost * Pos(Data.etfs, t).cost_basis.d

\* a second purchase at another price: 1 share at 1, then 2 shares at 3
C1_Witness ==
    /\ last.op = "buy" /\ last.ok /\ last.held = 1 /\ last.shares = 2
    /\ "SOXL" \in DOMAIN lots
    /\ lots["SOXL"] = [shares |-> 3, cost |-> 7]

\* C2: a sell of more shares than the position holds is rejected and leaves
\* the latest file and every snapshot as they were.
C2_OversellRejected ==
    [][ (last'.op = "sell" /\ last'.shares > Pos(Data.etfs, last'.ticker).shares)
           => (~last'.ok /\ latest' = latest /\ versions' = versions) ]_vars

C2_Witness ==
    /\ last.op = "sell" /\ ~last.ok
    /\ last.held > 0 /\ last.shares > last.held
    /\ Len(Data.history) > 0

\* C3: a sell of exactly the shares held leaves the position in the ledger
\* with shares = 0 and cost_basis = 0.
C3_SellAllResets ==
    (InSession /\ last.op = "sell" /\ last.ok /\ last.shares = last.held) =>
       /\ last.ticker \in KeySet(Data.etfs)
       /\ Pos(Data.etfs, last.ticker).shares = 0
       /\ Pos(Data.etfs, last.ticker).cost_basis = Zero

C3_Witness ==
    /\ last.op = "sell" /\ last.ok /\ last.shares = last.held /\ last.held = 2
    /\ Len(Data.history) = 2

\* C4: no position of any stored state has negative shares.
C4_SharesNonNegative ==
    \A d \in Stored : \A i \in 1..Len(d.etfs) : d.etfs[i].shares >= 0

\* an oversell was attempted on a position that has sold shares before
C4_Witness ==
    /\ last.op = "sell" /\ ~last.ok /\ last.shares > last.held
    /\ \E d \in Stored : Pos(d.etfs, "SOXL").shares > last.held

\* C5: in every stored state a position with 0 shares has cost_basis 0.
C5_ZeroSharesZeroBasis ==
    \A d \in Stored : \A i \in 1..Len(d.etfs) :
       d.etfs[i].shares = 0 => d.etfs[i].cost_basis = Zero

\* everything was sold, and a snapshot from before the sale was restored
C5_Witness ==
    /\ last.op = "restore" /\ last.ok
    /\ Pos(Data.etfs, "SOXL").shares > 0
    /\ \E d \in Stored : /\ Len(d.history) = 2
                         /\ Pos(d.etfs, "SOXL").shares = 0
                         /\ d.history[1] = Data.history[1]

\* C6: Save & Normalize on a non-empty form with a positive sum sets every
\* target_pct to its form value divided by that sum: the targets then sum to
\* 1 and keep the proportions of the form.
C6_NormalizeSumsToOne ==
    (InSession /\ last.op = "normalize" /\ Len(last.new_targets) > 0
        /\ RPos(RSum(last.new_targets))) =>
       LET tgt == [i \in 1..Len(Data.etfs) |-> Data.etfs[i].target_pct]
           total == RSum(last.new_targets)
       IN  /\ Len(tgt) = Len(last.new_targets)
           /\ \A i \in 1..Len(tgt) : RMul(tgt[i], total) = last.new_targets[i]
           /\ RSum(tgt) = One
           /\ \A i, j \in 1..Len(tgt) :
                 RMul(tgt[i], last.new_targets[j]) = RMul(tgt[j], last.new_targets[i])

\* the form {SOXL: 0.5, SLV: 0.3, TQQQ: 0.3}: every value is divided by 1.1
C6_Witness ==
    /\ last.op = "normalize"
    /\ RSum(last.new_targets) = Rat(11, 10)
    /\ Pos(Data.etfs, "SOXL").target_pct = Rat(5, 11)

\* the deviation of position i in the run of the last suggestion
SuggestDev(i) ==
    LET e == last.etfs[i]
        price == IF e.ticker \in DOMAIN last.prices THEN last.prices[e.ticker] ELSE 0
    IN  RSub(RMul(FromInt(last.total_val), e.target_pct), FromInt(e.shares * price))

\* C7: the suggested ticker has a maximal deviation, and every ticker
\* declared before it has a strictly smaller one.
C7_SuggestFirstMaximal ==
    last.op = "suggest" =>
       LET b == Idx(last.etfs, last.out.best)
       IN  \A i \in 1..Len(last.etfs) :
              /\ RLeq(SuggestDev(i), SuggestDev(b))
              /\ i < b => RLess(SuggestDev(i), SuggestDev(b))

\* two tickers tie for the greatest deviation of a portfolio that has value
C7_Witness ==
    /\ last.op = "suggest" /\ last.total_val > 0
    /\ \E i \in 1..Len(last.etfs) :
          /\ i > Idx(last.etfs, last.out.best)
          /\ SuggestDev(i) = SuggestDev(Idx(last.etfs, last.out.best))
          /\ RPos(SuggestDev(i))

\* C8: when the selected ticker has no price (0 or missing) the suggestion
\* fails with NoPriceAvailable.
C8_NoPriceAvailable ==
    (last.op = "suggest" /\ price_get(last.prices, last.out.best, 0) = 0)
       => last.out.result = "NoPriceAvailable"

\* C9: a run that persists a state adds a snapshot under an identifier the
\* store did not hold, with that state as its content, and leaves latest
\* equal to that state.
C9_PersistAddsSnapshot ==
    [][ last'.saved # <<>> =>
          /\ latest'[username'] = last'.saved
          /\ \E v \in DOMAIN versions'[username'] :
                /\ v \notin DOMAIN versions[username']
                /\ versions'[username'][v] = last'.saved[1] ]_vars

\* C10: whenever a user has snapshots, latest holds the content of the
\* snapshot with the greatest identifier.
C10_LatestIsNewestSnapshot ==
    \A u \in Users :
       DOMAIN versions[u] # {} => latest[u] = <<versions[u][Max(DOMAIN versions[u])]>>

\* C11: every persisting run adds exactly one snapshot, under an identifier
\* greater than all identifiers the store held, and leaves the content of
\* every earlier snapshot as it was.
C11_FreshGreaterIdentifier ==
    [][ last'.saved # <<>> =>
          LET old == versions[username']
              new == versions'[username']
          IN  /\ Cardinality(DOMAIN new) = Cardinality(DOMAIN old) + 1
              /\ \A v \in DOMAIN old : v \in DOMAIN new /\ new[v] = old[v]
              /\ \A v \in DOMAIN new \ DOMAIN old : \A w \in DOMAIN old : w < v ]_vars

\* C12: after an interrupted persist the state loaded from latest is the
\* whole state from before the persist or the whole new state.
C12_InterruptedPersistKeepsLatest ==
    last.op = "buy_interrupted" =>
       /\ load_latest(latest, last.user) \in {last.before, last.new}
       /\ ~last.reported

\* C13: Load & Replace with a selected file that is not in the store fails
\* and leaves the latest file and every snapshot as they were.
C13_RestoreMissingFails ==
    [][ (last'.op = "restore" /\ last'.version \notin DOMAIN versions[username])
           => (~last'.ok /\ latest' = latest /\ versions' = versions) ]_vars

\* the missing file was asked for while the store held another snapshot and
\* a state that differs from it
C13_Witness ==
    /\ last.op = "restore" /\ ~last.ok
    /\ last.version \notin DOMAIN versions[username]
    /\ DOMAIN versions[username] # {}
    /\ Len(Data.history) > 0

C15_OneBaselinePerSession ==
    [][ /\ (~InSession /\ InSession') =>
              /\ last'.op = "apply"
              /\ versions'[username'][timestamp(clock)] = load_latest(latest, username')
              /\ latest'[username'] = <<load_latest(latest, username')>>
              /\ \A v \in DOMAIN versions[username'] \ {timestamp(clock)} :
                    versions'[username'][v] = versions[username'][v]
        /\ InSession' => session_snapshotted'
        /\ InSession => Base = <<latest, versions>> ]_vars

\* a second session began after a purchase and wrote its baseline
C15_Witness ==
    /\ last.op = "apply"
    /\ Len(Data.history) > 0
    /\ Cardinality(DOMAIN versions[username]) = 2
    /\ versions[username][timestamp(clock)] = Data

\* the history of the state a run loads for user u
HistoryOf(lat, u) == load_latest(lat, u).history

IsPrefix(a, b) == Len(a) <= Len(b) /\ SubSeq(b, 1, Len(a)) = a

\* C16: every run of a mutating handler that succeeds persists a state
\* whose history is the history it loaded plus one entry, as a snapshot and
\* as latest.
C16_HistoryEntryThenPersist ==
    [][ (last'.op \in {"buy", "sell", "calls", "premium", "contracts", "add"} /\ last'.ok) =>
          /\ last'.saved # <<>>
          /\ Len(last'.saved[1].history) = Len(HistoryOf(latest, username)) + 1
          /\ IsPrefix(HistoryOf(latest, username), last'.saved[1].history)
          /\ latest'[username] = last'.saved
          /\ versions'[username][timestamp(clock)] = last'.saved[1] ]_vars

\* C17: across every step the history a user's state holds before the step
\* is a prefix of the history it holds after the step.
C17_HistoryAppendOnly ==
    [][ \A u \in Users : IsPrefix(HistoryOf(latest, u), HistoryOf(latest', u)) ]_vars

RECURSIVE PremiumSum(_, _, _)
PremiumSum(history, from, to) ==
    IF from > to THEN 0 ELSE history[to].premium + PremiumSum(history, from, to - 1)

\* C18: at the k-th entry the rolling premium is the sum of the premiums of
\* the entries max(1, k-3)..k, and the estimate shown is the value at the
\* last entry: p1 at the first entry, p2+p3+p4+p5 at the fifth.
C18_RollingPremiumWindow ==
    InSession =>
       LET h == Data.history
       IN  /\ \A k \in 1..Len(h) :
                 /\ monthly_prem(h, k) = PremiumSum(h, IF k - 3 > 1 THEN k - 3 ELSE 1, k)
                 /\ monthly_premium_est(SubSeq(h, 1, k)) = monthly_prem(h, k)
           /\ Len(h) >= 1 => monthly_prem(h, 1) = h[1].premium
           /\ Len(h) >= 5 =>
                 monthly_prem(h, 5) = h[2].premium + h[3].premium + h[4].premium + h[5].premium
           /\ h = <<>> => monthly_premium_est(h) = 0

\* five entries, the first with a premium that the fifth value leaves out
C18_Witness ==
    /\ InSession
    /\ Len(Data.history) = 5
    /\ Data.history[1].premium = 3
    /\ Data.history[3].premium = 0
    /\ monthly_premium_est(Data.history) = 4

C20_SellCallsRecords ==
    [][ (last'.op = "calls" /\ last'.ok) =>
          LET old == load_latest(latest, username)
              new == load_latest(latest', username)
              n == Len(old.history)
              k == Len(old.option_trades)
          IN  /\ Len(new.history) = n + 1
              /\ SubSeq(new.history, 1, n) = old.history
              /\ new.history[n + 1].premium = last'.contracts * last'.premium_per * 100
              /\ Len(new.option_trades) = k + 1
              /\ SubSeq(new.option_trades, 1, k) = old.option_trades
              /\ new.option_trades[k + 1].ticker = last'.ticker
              /\ new.option_trades[k + 1].contracts = last'.contracts
              /\ new.option_trades[k + 1].status = "open" ]_vars

\* 2 contracts at 1 per contract: premium 200
C20_Witness ==
    /\ last.op = "calls" /\ last.ok /\ last.contracts = 2 /\ last.premium_per = 1
    /\ Data.history[Len(Data.history)].premium = 200
    /\ Len(Data.option_trades) = 1


TerminalStatus == {"assigned", "expired"}

\* the option trades of the state a run loads for user u
TradesOf(lat, u) == load_latest(lat, u).option_trades

\* C21: every stored trade has a status of open, assigned or expired; a
\* trade appended by a step is open; a trade that stays in the list keeps
\* its status or goes from open to assigned or expired.
C21_OptionStatusOnlyAdvances ==
    [][ \A u \in Users :
          LET old == TradesOf(latest, u)
              new == TradesOf(latest', u)
          IN  /\ \A i \in 1..Len(new) : new[i].status \in {"open"} \cup TerminalStatus
              /\ \A i \in 1..Len(new) : i > Len(old) => new[i].status = "open"
              /\ \A i \in 1..Len(new) :
                    (i <= Len(old) /\ new[i].status # old[i].status) =>
                       (old[i].status = "open" /\ new[i].status \in TerminalStatus) ]_vars

\* an assignment check marked both trades of the list in its run; the
\* state the next run loads holds them open
C21_Witness ==
    /\ last.op = "assignment_check" /\ last.marks = {1, 2}
    /\ last.in_run[1].status = "assigned"
    /\ Len(Data.option_trades) = 2
    /\ Data.option_trades[1].status = "open"

\* the user for whom a step runs
Actor == IF last'.op = "apply" THEN username' ELSE username

IsFreshState(d) ==
    /\ [i \in 1..Len(d.etfs) |-> d.etfs[i].ticker]
          = <<"SOXL", "SLV", "TQQQ", "URA", "IAU", "COPX", "UPRO", "UAMY">>
    /\ \A i \in 1..Len(d.etfs) : d.etfs[i].shares = 0 /\ d.etfs[i].cost_basis = Zero
    /\ d.history = <<>>
    /\ d.initial_capital = 0
    /\ d.capital_additions = <<>>
    /\ d.option_trades = <<>>

C23_CacheWithinWindow ==
    [][ /\ \A key \in DOMAIN cache :
              clock - cache[key].at < ttl => (key \in DOMAIN cache' /\ cache'[key] = cache[key])
        /\ (last'.op = "suggest" /\ Keys(last'.etfs) \in DOMAIN cache
               /\ clock - cache[Keys(last'.etfs)].at < ttl)
              => last'.prices = cache[Keys(last'.etfs)].val ]_vars

\* a lookup one second before the entry expires, after the market moved
C23_Witness ==
    /\ last.op = "suggest" /\ market = "down"
    /\ clock = ttl - 1
    /\ cache[Keys(last.etfs)].at = 0
    /\ last.prices["SOXL"] = 2

RECURSIVE ValueSum(_, _, _)
ValueSum(etfs, prices, n) ==
    IF n = 0 THEN 0
    ELSE ValueSum(etfs, prices, n - 1)
         + etfs[n].shares * (IF etfs[n].ticker \in DOMAIN prices
                             THEN prices[etfs[n].ticker] ELSE 0)

\* C24: when the lookup fails every ticker of the list is priced 0, and the
\* valuation of a run is the sum of shares * price over the positions, with
\* 0 for a ticker that has no price.
C24_FailedLookupDegrades ==
    InSession =>
       LET key == Keys(Data.etfs)
       IN  /\ (market = "down" /\ ~(key \in DOMAIN cache /\ clock - cache[key].at < ttl)) =>
                 /\ \A i \in 1..Len(key) : key[i] \in DOMAIN Prices /\ Prices[key[i]] = 0
                 /\ Gross = 0
           /\ Gross = ValueSum(Data.etfs, Prices, Len(Data.etfs))

\* the lookup fails for a portfolio that holds shares
C24_Witness ==
    /\ InSession /\ market = "down"
    /\ Pos(Data.etfs, "SOXL").shares > 0
    /\ ~CacheHit(cache, Keys(Data.etfs), clock)
    /\ Prices["SOXL"] = 0


\* C25: Submit Buy with shares <= 0 or price <= 0 is refused and leaves
\* the latest file and every snapshot as they were.
C25_InvalidBuyRejected ==
    [][ (last'.op = "buy" /\ (last'.shares <= 0 \/ last'.price <= 0)) =>
           (~last'.ok /\ latest' = latest /\ versions' = versions) ]_vars

\* shares at price 0, for a position that holds shares
C25_Witness ==
    /\ last.op = "buy" /\ ~last.ok
    /\ last.shares = 1 /\ last.price = 0
    /\ last.held > 0

\* C26: Add & Rebalance with an empty ticker or a ticker the ledger holds
\* is refused and leaves the latest file and every snapshot as they were.
C26_DuplicateTickerRejected ==
    [][ (last'.op = "add" /\ (last'.ticker = "" \/ last'.ticker \in KeySet(Data.etfs))) =>
           (~last'.ok /\ latest' = latest /\ versions' = versions) ]_vars

\* SOXL is added again while its position holds shares and contracts
C26_Witness ==
    /\ last.op = "add" /\ ~last.ok /\ last.ticker = "SOXL"
    /\ Pos(Data.etfs, "SOXL").shares > 0
    /\ Pos(Data.etfs, "SOXL").weekly_contracts > 0

\* C28: Update Contracts sets weekly_contracts and contracts_sold of the
\* ticker to the values given and leaves shares, cost_basis and target_pct
\* of every position, the contract counts of every other ticker, the
\* option trades and the history as they were.
C28_SetContractsFrame ==
    [][ last'.op = "contracts" =>
          LET old == load_latest(latest, username)
              new == load_latest(latest', username)
          IN  /\ Len(new.etfs) = Len(old.etfs)
              /\ \A i \in 1..Len(old.etfs) :
                    /\ new.etfs[i].ticker = old.etfs[i].ticker
                    /\ new.etfs[i].shares = old.etfs[i].shares
                    /\ new.etfs[i].cost_basis = old.etfs[i].cost_basis
                    /\ new.etfs[i].target_pct = old.etfs[i].target_pct
                    /\ IF old.etfs[i].ticker = last'.ticker
                       THEN /\ new.etfs[i].weekly_contracts = last'.weekly
                            /\ new.etfs[i].contracts_sold = last'.owned
                       ELSE /\ new.etfs[i].weekly_contracts = old.etfs[i].weekly_contracts
                            /\ new.etfs[i].contracts_sold = old.etfs[i].contracts_sold
              /\ new.option_trades = old.option_trades
              /\ new.history = old.history ]_vars

\* the counts of SLV are set while SOXL has shares, contracts of its own
\* and an open trade
C28_Witness ==
    /\ last.op = "contracts" /\ last.ticker = "SLV" /\ last.weekly = 1 /\ last.owned = 2
    /\ Pos(Data.etfs, "SLV").weekly_contracts = 1
    /\ Pos(Data.etfs, "SLV").contracts_sold = 2
    /\ Pos(Data.etfs, "SOXL").shares > 0
    /\ Pos(Data.etfs, "SOXL").weekly_contracts = 2
    /\ Len(Data.option_trades) = 1


\* C29: the select box offers the identifiers in descending order, all of
\* them up to 30 and else the 30 greatest; a run writes its snapshot under
\* the second of the run, which no identifier in the store exceeds, so the
\* descending order is the reverse of the order of writing.
C29_VersionListNewestFirst ==
    [][ \A u \in Users :
          LET ids == DOMAIN versions'[u]
              shown == IF Cardinality(ids) < 30 THEN Cardinality(ids) ELSE 30
          IN  \* the i-th option is the identifier with exactly i - 1 greater ones
              /\ display_options(versions', u) =
                    [i \in 1..shown |->
                       CHOOSE v \in ids : Cardinality({w \in ids : w > v}) = i - 1]
              /\ versions'[u] # versions[u] =>
                    /\ timestamp(clock) \in ids
                    /\ \A v \in DOMAIN versions[u] : v <= timestamp(clock)
                    /\ \A v \in DOMAIN versions[u] : versions'[u][v] # versions[u][v] =>
                          v = timestamp(clock) ]_vars

\* 31 snapshots: the select box offers the 30 newest and leaves out the oldest
C29_Witness ==
    /\ InSession
    /\ Cardinality(DOMAIN versions[username]) = 31
    /\ Len(display_options(versions, username)) = 30
    /\ display_options(versions, username)[1] = 30
    /\ display_options(versions, username)[30] = 1


\* C30: Save & Normalize with percentages whose total is not positive
\* leaves the target_pct of every position as it was.
C30_NormalizeNoOpOnZeroTotal ==
    [][ (last'.op = "normalize" /\ last' # last
            /\ ~RPos(targets_total(last'.new_targets))) =>
          /\ Len(Data'.etfs) = Len(Data.etfs)
          /\ \A i \in 1..Len(Data.etfs) :
                Data'.etfs[i].target_pct = Data.etfs[i].target_pct ]_vars

\* the form held only zeros while a position had a positive target
C30_Witness ==
    /\ last.op = "normalize"
    /\ ~RPos(targets_total(last.new_targets))
    /\ \E i \in 1..Len(Data.etfs) : RPos(Data.etfs[i].target_pct)


EntryFields == {"date", "portfolio_value", "margin_debt", "premium"}

\* C31: every entry of a stored history carries a date, a portfolio_value,
\* a margin_debt and a premium.
C31_HistoryEntryFields ==
    \A d \in Stored :
       "history" \in DOMAIN d =>
          \A i \in 1..Len(d.history) : EntryFields \subseteq DOMAIN d.history[i]


\* C32: a restore that succeeds, with the rerun it triggers, leaves the
\* identifiers and the contents of the snapshots of every user as they
\* were and writes the restored content to the latest file of the user.
C32_RestoreWritesNoSnapshot ==
    [][ (last'.op = "restore" /\ last'.ok /\ InSession) =>
          /\ versions' = versions
          /\ latest' = [latest EXCEPT ![username] = <<versions[username][last'.version]>>]
      ]_vars

\* an older snapshot was restored: latest differs from the newest snapshot
C32_Witness ==
    /\ InSession
    /\ last.op = "restore" /\ last.ok
    /\ Cardinality(DOMAIN versions[username]) = 2
    /\ last.version # Max(DOMAIN versions[username])
    /\ latest[username] # <<versions[username][Max(DOMAIN versions[username])]>>


\* C33: no trade, stored or in the copy of a run, has the status expired;
\* a stored trade changes its status in a step only if the step is an
\* assignment check with the trade's box set, and then to assigned; in the
\* copy of an assignment check only the trades whose box is set differ from
\* the loaded ones, and they are assigned.  So a trade past its expiry
\* date stays open.
C33_NoExpirySweep ==
    [][ /\ \A u \in Users :
             LET old == TradesOf(latest, u)
                 new == TradesOf(latest', u)
             IN  /\ \A i \in 1..Len(new) : new[i].status # "expired"
                 /\ \A i \in 1..Len(new) :
                       (i <= Len(old) /\ new[i].status # old[i].status) =>
                          /\ last'.op = "assignment_check" /\ i \in last'.marks
                          /\ u = username
                          /\ old[i].status = "open" /\ new[i].status = "assigned"
        /\ (last'.op = "assignment_check" /\ InSession) =>
             \A i \in 1..Len(last'.in_run) :
                /\ last'.in_run[i].status # "expired"
                /\ i \notin last'.marks => last'.in_run[i] = Data.option_trades[i]
                /\ i \in last'.marks =>
                      last'.in_run[i] = [Data.option_trades[i] EXCEPT !.status = "assigned"]
      ]_vars

\* an assignment check a week after the sale, with no box set: the trade is
\* past its expiry date and open
C33_Witness ==
    /\ InSession
    /\ last.op = "assignment_check" /\ last.marks = {}
    /\ Len(Data.option_trades) > 0
    /\ today(clock) > Data.option_trades[1].expiry
    /\ Data.option_trades[1].status = "open"
    /\ last.in_run[1].status = "open"


\* C34: an accepted Sell Calls sets weekly_contracts of the ticker to the
\* number of contracts and leaves the tickers, shares, cost_basis,
\* target_pct and contracts_sold of every position and the
\* weekly_contracts of every other ticker as they were.
C34_SellCallsFrame ==
    [][ (last'.op = "calls" /\ last'.ok) =>
          LET old == load_latest(latest, username).etfs
              new == load_latest(latest', username).etfs
          IN  /\ Len(new) = Len(old)
              /\ \A i \in 1..Len(old) :
                    new[i] = IF old[i].ticker = last'.ticker
                             THEN [old[i] EXCEPT !.weekly_contracts = last'.contracts]
                             ELSE old[i] ]_vars

\* calls are sold for SOXL, which has shares and a cumulative count of
\* its own, while SLV has counts of its own
C34_Witness ==
    /\ last.op = "calls" /\ last.ok /\ last.ticker = "SOXL" /\ last.contracts = 2
    /\ Pos(Data.etfs, "SOXL") = [ticker |-> "SOXL", shares |-> 1, cost_basis |-> FromInt(2),
                                 target_pct |-> Rat(30, 100), contracts_sold |-> 0,
                                 weekly_contracts |-> 2]
    /\ Pos(Data.etfs, "SLV").weekly_contracts = 1
    /\ Pos(Data.etfs, "SLV").contracts_sold = 2


\* C35: an accepted sell of fewer shares than the position holds lowers
\* the shares of the position by the shares sold and leaves its cost_basis,
\* its other fields and every other position as they were.
C35_PartialSellFrame ==
    [][ (last'.op = "sell" /\ last'.ok /\ last'.shares < last'.held) =>
          LET old == load_latest(latest, username).etfs
              new == load_latest(latest', username).etfs
          IN  /\ Len(new) = Len(old)
              /\ \A i \in 1..Len(old) :
                    new[i] = IF old[i].ticker = last'.ticker
                             THEN [old[i] EXCEPT !.shares = @ - last'.shares]
                             ELSE old[i] ]_vars

\* 1 share sold of 2 held at a basis of 3
C35_Witness ==
    /\ last.op = "sell" /\ last.ok /\ last.held = 2 /\ last.shares = 1
    /\ Pos(Data.etfs, "SOXL").shares = 1
    /\ Pos(Data.etfs, "SOXL").cost_basis = FromInt(3)


MarginOf(lat, u) == margin_of(HistoryOf(lat, u))

\* C36: a run of Submit Buy, Submit Sell, Sell Calls, Add Capital or Record
\* Premium leaves the margin debt read from the last history entry, and
\* with it gross value minus margin at the holdings and prices of before,
\* as they were.
C36_MarginOnlyByUpdate ==
    [][ (last'.op \in {"buy", "sell", "calls", "capital", "premium"} /\ InSession) =>
          /\ MarginOf(latest', username) = MarginOf(latest, username)
          /\ Gross - MarginOf(latest', username) = Gross - MarginOf(latest, username)
      ]_vars


\* C37: once an assignment check ran with the box of a trade set, a later
\* state on disk holds a trade of the user with the status assigned.
C37_AssignedEventuallyPersisted ==
    (InSession /\ last.op = "assignment_check" /\ last.marks # {})
       ~> (\E u \in Users : \E i \in 1..Len(TradesOf(latest, u)) :
              TradesOf(latest, u)[i].status = "assigned")


CapitalOf(lat, u) == load_latest(lat, u).initial_capital

TargetSum(etfs) == RSum([i \in 1..Len(etfs) |-> etfs[i].target_pct])

Tolerance == Rat(1, 1000000)

\* C39: in every stored state the target_pct of the positions sum to 1,
\* within 1e-6.
C39_TargetsSumToOne ==
    \A d \in Stored :
       "etfs" \in DOMAIN d =>
          /\ RLeq(RSub(TargetSum(d.etfs), One), Tolerance)
          /\ RLeq(RSub(One, TargetSum(d.etfs)), Tolerance)


\* C40: the trade an accepted Sell Calls appends has the strike the
\* holdings table suggests for its ticker at the price of that run.
C40_StrikeMatchesTable ==
    [][ (last'.op = "calls" /\ last'.ok) =>
          LET trades == TradesOf(latest', username)
          IN  <<trades[Len(trades)].strike>>
                 = suggested_strike(last'.ticker, price_get(Prices, last'.ticker, 0)) ]_vars

=============================================================================
